---- MODULE Spec2Model ----
(***************************************************************************)
(* file-mover-service (src/src/service.ts): startup (log directory, .env,  *)
(* configuration check), the polling watcher on the source directory, and  *)
(* moveFile with its bounded retry on EBUSY.                                *)
(*                                                                         *)
(* Paths are sequences of segments; a file's content is a set holding its  *)
(* identity ({} is "no file here").  The filesystem, the producers that    *)
(* create files and the outcome of each fs.move call are the environment.  *)
(***************************************************************************)
EXTENDS Integers, Sequences, FiniteSets, TLC

\* ------------------------------------------------------------- bounds
\* Files the producers create in the source tree after the watcher started.
MaxFiles == 2
\* 'error' events the watcher raises in one run.
MaxWatcherErrors == 1
\* Largest retry budget of a direct moveFile call (specification SpecMove).
MaxRetries == 4

\* ---------------------------------------------------------- constants
\* moveFile's default parameter value: retries = 3.
DefaultRetries == 3

\* ------------------------------------------------------ configuration
Keys == {"SRC", "DEST", "FILE_NAME"}

\* A variable that is not set (process.env.X === undefined).
Undefined == "undefined"

\* defaultEnvContent, as dotenv parses it.
DefaultEnv == [k \in Keys |->
                 CASE k = "SRC" -> "./src"
                   [] k = "DEST" -> "./dest"
                   [] OTHER -> "example.txt"]

\* The .env file is missing.
Missing == [k \in Keys |-> "missing"]

\* The contents a present .env file can have: each key set or left out.
EnvFiles == [Keys -> {Undefined, "set"}]

EnvFileValue(file, k) == IF file[k] = "set" THEN DefaultEnv[k] ELSE Undefined

\* dotenv.config: a key of the file is loaded unless process.env already has
\* the key (whatever its value, the empty string included).
DotenvConfig(env, file) ==
    [k \in Keys |-> IF env[k] # Undefined THEN env[k] ELSE EnvFileValue(file, k)]

\* JavaScript's !v for a string or undefined.
Falsy(v) == v = Undefined \/ v = ""

ConfigRejectedNoDest(env) == Falsy(env["SRC"]) \/ Falsy(env["FILE_NAME"])

\* loadEnv's check: any of the three values falsy ends the process.
ConfigRejected(env) == Falsy(env["SRC"]) \/ Falsy(env["DEST"]) \/ Falsy(env["FILE_NAME"])

\* --------------------------------------------------------------- paths
\* path.join(dir, ...rel)
Join(dir, rel) == <<dir>> \o rel

\* path.basename(p)
Basename(p) == p[Len(p)]

\* Paths of files under the watched directory, relative to it.
RelPaths == {<<"x">>, <<"sub", "x">>}

SrcPaths == {Join(DefaultEnv["SRC"], r) : r \in RelPaths}

DestPathKeepsTree(destDir, filePath) == Join(destDir, Tail(filePath))

\* The destination the 'add' handler computes for a detected path.
DestPathOf(destDir, filePath) == Join(destDir, <<Basename(filePath)>>)

DestPaths == {DestPathOf(DefaultEnv["DEST"], p) : p \in SrcPaths}

AllPaths == SrcPaths \cup DestPaths

\* ---------------------------------------------------------- filesystem
NoFile == {}

\* A file that was there before the service started.
OldFile == {0}

NewFile(id) == {id}

VARIABLES
    pc,            \* where startService is: start, logdir, envfile, loaded, watching, exited; direct
    out,           \* lifecycle lines written so far (console and logger)
    procEnv,       \* process.env restricted to Keys
    envFile,       \* the .env file: Missing, or which keys it sets
    dirOK,         \* the source directory exists and is readable
    cfg,           \* what loadEnv returned: srcDir, destDir
    fs,            \* path -> content
    nextId,        \* identity of the next file a producer creates
    known,         \* paths the watcher holds as present
    watcher,       \* idle, open, closed
    watcherErrors, \* 'Watcher error' lines logged: how many, and nextId at the latest
    moves          \* the moveFile invocations, in dispatch order

vars == <<pc, out, procEnv, envFile, dirOK, cfg, fs, nextId, known, watcher,
          watcherErrors, moves>>

NoCfg == [srcDir |-> Undefined, destDir |-> Undefined]

NoWatcherErrors == [n |-> 0, at |-> 0]

\* ------------------------------------------------------------- fs.move
\* A completed move: the source's file is at the destination, whatever was
\* there, and the source is gone.
Moved(f, src, dest) == [f EXCEPT ![dest] = f[src], ![src] = NoFile]

DestRemoved(f, dest) == [f EXCEPT ![dest] = NoFile]

\* The error codes an attempt on an existing source can fail with: the busy
\* error and one other (permission denied).
LockCodes == {"EBUSY", "EACCES"}

\* The ways one fs.move(src, dest, {overwrite}) call of fs-extra can settle, each
\* with the filesystem it leaves and its effect (fx).  The source is checked
\* first; with overwrite the destination is removed and without it an existing
\* destination is refused ('dest already exists.', which carries no code); then
\* the source is renamed onto the destination.  A call that fails after the
\* removal leaves the destination removed; no failing call touches the source.
FsMove(f, src, dest, overwrite) ==
    IF f[src] = NoFile
    THEN {[code |-> "ENOENT", fs |-> f, fx |-> "none"]}
    ELSE IF ~overwrite /\ f[dest] # NoFile
    THEN {[code |-> "DEST_EXISTS", fs |-> f, fx |-> "none"]}
    ELSE {[code |-> "ok", fs |-> Moved(f, src, dest), fx |-> "moved"]}
         \cup {[code |-> c, fs |-> f, fx |-> "none"] : c \in LockCodes}
         \cup (IF f[dest] # NoFile
               THEN {[code |-> c, fs |-> DestRemoved(f, dest), fx |-> "destRemoved"] :
                        c \in LockCodes}
               ELSE {})

MoveOptionsNoOverwrite == [overwrite |-> FALSE]

\* The options moveFile passes to fs.move.
MoveOptions == [overwrite |-> TRUE]

\* ------------------------------------------------------------ moveFile
\* moveFile(srcPath, destPath, retries) up to its first await: the 'Attempting
\* to move' line is logged and fs.move is in flight.  att, warn, err, ok count
\* the invocation's own log lines (the recursive calls included), waits its
\* backoff timers.  The rest is history: max is the budget it started with, file
\* what was at srcPath then, busy and other the attempts that failed with and
\* without EBUSY, last how the latest attempt settled, moved the relocations its
\* attempts made, clob whether a failed attempt of it removed the destination.
MoveFile(f, srcPath, destPath, retries) ==
    [src |-> srcPath, dest |-> destPath, retries |-> retries, st |-> "attempting",
     att |-> 1, warn |-> 0, err |-> 0, ok |-> 0, waits |-> 0,
     max |-> retries, file |-> f[srcPath], busy |-> 0, other |-> 0, last |-> "",
     moved |-> 0, clob |-> FALSE]

CatchBranchAnyError(retries, code) ==
    IF retries > 0 THEN "retry" ELSE "fail"

CatchBranchOffByOne(retries, code) ==
    IF retries > 1 /\ code = "EBUSY" THEN "retry" ELSE "fail"

CatchBranchOneTooMany(retries, code) ==
    IF retries >= 0 /\ code = "EBUSY" THEN "retry" ELSE "fail"

\* The catch block's test: retry only the busy error, only with budget left.
CatchBranch(retries, code) ==
    IF retries > 0 /\ code = "EBUSY" THEN "retry" ELSE "fail"

Settled(m, o) ==
    [m EXCEPT !.last = o.code,
              !.busy = IF o.code = "EBUSY" THEN @ + 1 ELSE @,
              !.other = IF o.code \notin {"ok", "EBUSY"} THEN @ + 1 ELSE @,
              !.moved = IF o.fx = "moved" THEN @ + 1 ELSE @,
              !.clob = @ \/ o.fx = "destRemoved"]

\* fs.move resolved: the success line.
OnResolved(m, o) == [Settled(m, o) EXCEPT !.st = "succeeded", !.ok = @ + 1]

OnRejectedKeepsTrying(m, o) ==
    IF CatchBranch(m.retries, o.code) = "retry"
    THEN [Settled(m, o) EXCEPT !.st = "waiting", !.warn = @ + 1, !.waits = @ + 1]
    ELSE [Settled(m, o) EXCEPT !.st = "waiting", !.err = @ + 1, !.waits = @ + 1]

\* fs.move rejected: the catch block, up to its await on the backoff timer or
\* to its end.
OnRejected(m, o) ==
    IF CatchBranch(m.retries, o.code) = "retry"
    THEN [Settled(m, o) EXCEPT !.st = "waiting", !.warn = @ + 1, !.waits = @ + 1]
    ELSE [Settled(m, o) EXCEPT !.st = "failed", !.err = @ + 1]

\* The backoff timer fired: moveFile(srcPath, destPath, retries - 1).
OnBackoff(m) ==
    [m EXCEPT !.retries = @ - 1, !.st = "attempting", !.att = @ + 1]

Alive == pc \in {"watching", "direct"}

\* The invocations there can be: one for each file that is or comes to be under
\* the source tree.
MoveIds == 1..(MaxFiles + Cardinality(SrcPaths))

MoveResolves(i) ==
    /\ Alive
    /\ i \in DOMAIN moves
    /\ moves[i].st = "attempting"
    /\ \E o \in FsMove(fs, moves[i].src, moves[i].dest, MoveOptions.overwrite) :
          /\ o.code = "ok"
          /\ fs' = o.fs
          /\ moves' = [moves EXCEPT ![i] = OnResolved(@, o)]
    /\ UNCHANGED <<pc, out, procEnv, envFile, dirOK, cfg, nextId, known, watcher,
                   watcherErrors>>

MoveRejectsSharedBudget(i) ==
    /\ Alive
    /\ i \in DOMAIN moves
    /\ moves[i].st = "attempting"
    /\ \E o \in FsMove(fs, moves[i].src, moves[i].dest, MoveOptions.overwrite) :
          /\ o.code # "ok"
          /\ fs' = o.fs
          /\ moves' = [j \in DOMAIN moves |->
                          IF j = i THEN OnRejected(moves[i], o)
                          ELSE IF /\ CatchBranch(moves[i].retries, o.code) = "retry"
                                  /\ moves[j].st \in {"attempting", "waiting"}
                                  /\ moves[j].retries > 0
                               THEN [moves[j] EXCEPT !.retries = @ - 1]
                               ELSE moves[j]]
    /\ UNCHANGED <<pc, out, procEnv, envFile, dirOK, cfg, nextId, known, watcher,
                   watcherErrors>>

MoveRejects(i) ==
    /\ Alive
    /\ i \in DOMAIN moves
    /\ moves[i].st = "attempting"
    /\ \E o \in FsMove(fs, moves[i].src, moves[i].dest, MoveOptions.overwrite) :
          /\ o.code # "ok"
          /\ fs' = o.fs
          /\ moves' = [moves EXCEPT ![i] = OnRejected(@, o)]
    /\ UNCHANGED <<pc, out, procEnv, envFile, dirOK, cfg, nextId, known, watcher,
                   watcherErrors>>

BackoffElapses(i) ==
    /\ Alive
    /\ i \in DOMAIN moves
    /\ moves[i].st = "waiting"
    /\ moves' = [moves EXCEPT ![i] = OnBackoff(@)]
    /\ UNCHANGED <<pc, out, procEnv, envFile, dirOK, cfg, fs, nextId, known, watcher,
                   watcherErrors>>

\* ------------------------------------------------------------- startup
\* ensureLogDirectory: fs.ensureDir(logDir) succeeds, or the catch block ends
\* the process with exit code 1.
EnsureLogDirectory ==
    /\ pc = "start"
    /\ \E made \in BOOLEAN :
          IF made
          THEN pc' = "logdir" /\ out' = out \cup {"Log directory is set"}
          ELSE pc' = "exited" /\ out' = out \cup {"Error creating log directory"}
    /\ UNCHANGED <<procEnv, envFile, dirOK, cfg, fs, nextId, known, watcher,
                   watcherErrors, moves>>

\* ensureEnvFile: a missing .env is written with the defaults, or the catch
\* block ends the process with exit code 1.
EnsureEnvFile ==
    /\ pc = "logdir"
    /\ IF envFile # Missing
       THEN pc' = "envfile" /\ UNCHANGED <<out, envFile>>
       ELSE \E written \in BOOLEAN :
               IF written
               THEN /\ pc' = "envfile"
                    /\ envFile' = [k \in Keys |-> "set"]
                    /\ out' = out \cup {".env file created"}
               ELSE /\ pc' = "exited"
                    /\ out' = out \cup {"Error creating .env file"}
                    /\ UNCHANGED envFile
    /\ UNCHANGED <<procEnv, dirOK, cfg, fs, nextId, known, watcher, watcherErrors,
                   moves>>

\* loadEnv after ensureEnvFile: dotenv.config, then the three values are read
\* and checked.
LoadEnv ==
    /\ pc = "envfile"
    /\ procEnv' = DotenvConfig(procEnv, envFile)
    /\ IF ConfigRejected(procEnv')
       THEN /\ pc' = "exited"
            /\ out' = out \cup {"Error: SRC, DEST, and FILE_NAME must be defined"}
            /\ UNCHANGED cfg
       ELSE /\ pc' = "loaded"
            /\ cfg' = [srcDir |-> procEnv'["SRC"], destDir |-> procEnv'["DEST"]]
            /\ UNCHANGED out
    /\ UNCHANGED <<envFile, dirOK, fs, nextId, known, watcher, watcherErrors, moves>>

\* ------------------------------------------------------------- watcher
\* The options startWatching passes to chokidar.watch.
WatchOptionsReportInitial == [ignoreInitial |-> FALSE, usePolling |-> TRUE]

WatchOptions == [ignoreInitial |-> TRUE, usePolling |-> TRUE]

\* The files under the watched directory.
Present(f) == {p \in SrcPaths : f[p] # NoFile}

RECURSIVE Dispatch(_, _, _)
\* The 'add' handler run once for each path of a set: the destination is
\* destDir joined with the base name, and moveFile is called with the default
\* budget and not awaited.
Dispatch(f, destDir, paths) ==
    IF paths = {}
    THEN <<>>
    ELSE LET p == CHOOSE q \in paths : TRUE
         IN  <<MoveFile(f, p, DestPathOf(destDir, p), DefaultRetries)>>
             \o Dispatch(f, destDir, paths \ {p})

\* startWatching: the watcher takes the paths that are there as known (reporting
\* them only without ignoreInitial), both handlers are registered and the
\* 'Watching directory' line is logged.  Nothing checks the directory.
StartWatching ==
    /\ pc = "loaded"
    /\ pc' = "watching"
    /\ watcher' = "open"
    /\ known' = Present(fs)
    /\ moves' = moves \o (IF WatchOptions.ignoreInitial
                          THEN <<>>
                          ELSE Dispatch(fs, cfg.destDir, Present(fs)))
    /\ out' = out \cup {"Watching directory"}
    /\ UNCHANGED <<procEnv, envFile, dirOK, cfg, fs, nextId, watcherErrors>>

WatcherAddForgets(p) ==
    /\ pc = "watching"
    /\ watcher = "open"
    /\ fs[p] # NoFile
    /\ \A i \in DOMAIN moves : moves[i].src = p => moves[i].st \in {"succeeded", "failed"}
    /\ moves' = moves \o Dispatch(fs, cfg.destDir, {p})
    /\ UNCHANGED <<pc, out, procEnv, envFile, dirOK, cfg, fs, nextId, known, watcher,
                   watcherErrors>>

WatcherAddAwaitsMoves(p) ==
    /\ pc = "watching"
    /\ watcher = "open"
    /\ fs[p] # NoFile
    /\ p \notin known
    /\ \A i \in DOMAIN moves : moves[i].st \in {"succeeded", "failed"}
    /\ known' = known \cup {p}
    /\ moves' = moves \o Dispatch(fs, cfg.destDir, {p})
    /\ UNCHANGED <<pc, out, procEnv, envFile, dirOK, cfg, fs, nextId, watcher,
                   watcherErrors>>

\* A poll finds a path the watcher does not hold as known: 'add', and its
\* handler.
WatcherAdd(p) ==
    /\ pc = "watching"
    /\ watcher = "open"
    /\ fs[p] # NoFile
    /\ p \notin known
    /\ known' = known \cup {p}
    /\ moves' = moves \o Dispatch(fs, cfg.destDir, {p})
    /\ UNCHANGED <<pc, out, procEnv, envFile, dirOK, cfg, fs, nextId, watcher,
                   watcherErrors>>

\* A poll finds a known path gone: 'unlink', which has no handler.
WatcherUnlink(p) ==
    /\ pc = "watching"
    /\ watcher = "open"
    /\ fs[p] = NoFile
    /\ p \in known
    /\ known' = known \ {p}
    /\ UNCHANGED <<pc, out, procEnv, envFile, dirOK, cfg, fs, nextId, watcher,
                   watcherErrors, moves>>

OnWatcherErrorClose(w) == "closed"

\* What the 'error' handler does to the watcher: it logs, nothing else.
OnWatcherError(w) == w

\* The watcher raises 'error'.
WatcherError ==
    /\ pc = "watching"
    /\ watcher = "open"
    /\ watcherErrors.n < MaxWatcherErrors
    /\ watcherErrors' = [n |-> watcherErrors.n + 1, at |-> nextId]
    /\ watcher' = OnWatcherError(watcher)
    /\ UNCHANGED <<pc, out, procEnv, envFile, dirOK, cfg, fs, nextId, known, moves>>

\* --------------------------------------------------------- environment
\* A producer creates a file at a free path of the source tree.
CreateFile(p) ==
    /\ pc = "watching"
    /\ dirOK
    /\ fs[p] = NoFile
    /\ nextId <= MaxFiles
    /\ fs' = [fs EXCEPT ![p] = NewFile(nextId)]
    /\ nextId' = nextId + 1
    /\ UNCHANGED <<pc, out, procEnv, envFile, dirOK, cfg, known, watcher,
                   watcherErrors, moves>>

\* ------------------------------------------------------ specifications
\* The filesystems the service can start on: old files at any source paths (none
\* when the directory is not there) and at any destination paths.
InitialFs(ok) ==
    {f \in [AllPaths -> {NoFile, OldFile}] : ~ok => \A p \in SrcPaths : f[p] = NoFile}

Init ==
    /\ pc = "start"
    /\ out = {}
    /\ procEnv \in [Keys -> {Undefined, ""}]
    /\ envFile \in EnvFiles \cup {Missing}
    /\ dirOK \in BOOLEAN
    /\ cfg = NoCfg
    /\ fs \in InitialFs(dirOK)
    /\ nextId = 1
    /\ known = {}
    /\ watcher = "idle"
    /\ watcherErrors = NoWatcherErrors
    /\ moves = <<>>

Next ==
    \/ EnsureLogDirectory
    \/ EnsureEnvFile
    \/ LoadEnv
    \/ StartWatching
    \/ \E p \in SrcPaths : WatcherAdd(p) \/ WatcherUnlink(p) \/ CreateFile(p)
    \/ WatcherError
    \/ \E i \in MoveIds : MoveResolves(i) \/ MoveRejects(i) \/ BackoffElapses(i)

Spec == Init /\ [][Next]_vars

\* One direct call moveFile(src, dest, n), for every budget n up to MaxRetries,
\* with the source there or not and the destination free or taken.
InitMove ==
    /\ pc = "direct"
    /\ out = {}
    /\ procEnv = DefaultEnv
    /\ envFile = [k \in Keys |-> "set"]
    /\ dirOK = TRUE
    /\ cfg = [srcDir |-> DefaultEnv["SRC"], destDir |-> DefaultEnv["DEST"]]
    /\ nextId = 2
    /\ known = {}
    /\ watcher = "idle"
    /\ watcherErrors = NoWatcherErrors
    /\ \E p \in SrcPaths, s \in {NoFile, NewFile(1)}, d \in {NoFile, OldFile},
          n \in 0..MaxRetries :
          /\ fs = [q \in AllPaths |->
                     IF q = p THEN s
                     ELSE IF q = DestPathOf(cfg.destDir, p) THEN d ELSE NoFile]
          /\ moves = <<MoveFile(fs, p, DestPathOf(cfg.destDir, p), n)>>

NextMove ==
    \E i \in MoveIds : MoveResolves(i) \/ MoveRejects(i) \/ BackoffElapses(i)

SpecMove == InitMove /\ [][NextMove]_vars

\* Every fs.move call settles and every backoff timer fires.
MoveFairness ==
    \A i \in MoveIds :
        /\ WF_vars(MoveResolves(i) \/ MoveRejects(i))
        /\ WF_vars(BackoffElapses(i))

FairSpecMove == SpecMove /\ MoveFairness

FairSpec == Spec /\ MoveFairness

\* The service and the direct calls together: every budget and every
\* interleaving of the invocations the watcher dispatches.
InitAll == Init \/ InitMove

SpecAll == InitAll /\ [][Next]_vars

\* -------------------------------------------------------------- claims
Invocations == {moves[i] : i \in DOMAIN moves}

\* Every attempt so far failed with EBUSY and the invocation has given up.
BusyExhausted(m) == m.st = "failed" /\ m.other = 0 /\ m.busy = m.att

\* C1: for every budget n >= 0, an invocation all of whose attempts fail with
\* EBUSY logs n warn lines, then one error line and no success line, and leaves
\* the source file where it was and the destination as it was.
C1_BusyExhaustionLeavesFilesUntouched ==
    \A m \in Invocations :
        BusyExhausted(m) =>
            /\ m.warn = m.max /\ m.err = 1 /\ m.ok = 0
            /\ fs[m.src] = m.file
            /\ m.moved = 0 /\ ~m.clob

\* C2: an invocation that met an error other than EBUSY has failed with exactly
\* one error line; the attempt that met it is its last, whatever budget was
\* left, and no warn line or backoff wait follows it.
C2_NonBusyErrorFailsAtOnce ==
    \A m \in Invocations :
        m.other >= 1 =>
            /\ m.st = "failed" /\ m.err = 1 /\ m.ok = 0 /\ m.other = 1
            /\ m.att = m.busy + 1
            /\ m.warn = m.busy /\ m.waits = m.busy
            /\ m.retries = m.max - m.busy

C2_Witness ==
    \E m \in Invocations : m.last = "EACCES" /\ m.busy = 1 /\ m.retries >= 2

\* C3: an invocation whose first k <= n attempts fail with EBUSY goes on to
\* attempt k + 1, and when that attempt succeeds it has logged exactly k warn
\* lines, one success line and no error line.
C3_SuccessAfterBusyAttempts ==
    \A m \in Invocations :
        /\ (m.other = 0 /\ m.busy <= m.max) => m.st # "failed"
        /\ m.st = "succeeded" =>
              /\ m.other = 0 /\ m.busy <= m.max /\ m.att = m.busy + 1
              /\ m.warn = m.busy /\ m.ok = 1 /\ m.err = 0

C3_Witness ==
    \E m \in Invocations :
        m.st = "succeeded" /\ m.max = DefaultRetries /\ m.busy = 2 /\ m.warn = 2

\* C4: a file that was under the source directory when startWatching ran is
\* held as known by the watcher for as long as it is there, so no 'add' is
\* raised for it, and no moveFile invocation is ever made for it.
C4_InitialFilesNeverMoved ==
    /\ \A m \in Invocations : m.file # OldFile
    /\ watcher = "open" => \A p \in SrcPaths : fs[p] = OldFile => p \in known

C4_Witness ==
    /\ \E p \in SrcPaths : fs[p] = OldFile
    /\ \E m \in Invocations : m.st = "succeeded"

\* The invocations made for the file with identity id.
InvocationsFor(id) == {i \in DOMAIN moves : moves[i].file = NewFile(id)}

\* C5: every file created under the source directory after the watcher started
\* gets exactly one moveFile invocation: never two, and never none once the
\* watcher holds its path as known (it raises 'add' only for paths it does not
\* hold, so such a file would be dropped for good).
C5_EveryCreatedFileDispatchedOnce ==
    /\ \A id \in 1..MaxFiles : Cardinality(InvocationsFor(id)) <= 1
    /\ \A p \in SrcPaths :
          (watcher = "open" /\ p \in known /\ fs[p] \notin {NoFile, OldFile})
              => \E m \in Invocations : m.file = fs[p]

\* C6: with the source directory missing or unreadable the service reports a
\* fatal error and never enters the watching state.
C6_MissingDirectoryFailsFast ==
    ~dirOK => pc # "watching" /\ "Watching directory" \notin out

FatalLines ==
    {"Error creating log directory", "Error creating .env file",
     "Error: SRC, DEST, and FILE_NAME must be defined"}

\* C7: once loadEnv has run, a configuration without a source or a destination
\* directory has ended the process with a fatal line and the watcher was never
\* started; whenever startWatching is reached or has run, srcDir and destDir are
\* both non-empty.
C7_NoWatchWithoutDirectories ==
    /\ (pc \notin {"start", "logdir", "envfile"}
        /\ (Falsy(procEnv["SRC"]) \/ Falsy(procEnv["DEST"])))
          => pc = "exited" /\ watcher = "idle" /\ out \cap FatalLines # {}
    /\ (pc \in {"loaded", "watching"} \/ watcher # "idle")
          => ~Falsy(cfg.srcDir) /\ ~Falsy(cfg.destDir)

C7_Witness ==
    /\ pc = "exited"
    /\ ~Falsy(procEnv["SRC"]) /\ Falsy(procEnv["DEST"])
    /\ "Error: SRC, DEST, and FILE_NAME must be defined" \in out

C9_FailedAttemptChangesOnlyItsOwnLines ==
    [][\A i \in DOMAIN moves :
          (moves[i].st = "attempting" /\ moves'[i].st \in {"waiting", "failed"}) =>
              /\ pc' = pc /\ watcher' = watcher /\ known' = known
              /\ \A j \in DOMAIN moves : j # i => moves'[j] = moves[j]
              /\ fs' = fs]_vars

\* C10: after any 'error' events the process is still watching with the watcher
\* open, and a file under the source directory that the watcher does not hold
\* as known still raises 'add' and gets its moveFile invocation.
C10_WatcherErrorKeepsWatching ==
    watcherErrors.n > 0 =>
        /\ pc = "watching" /\ watcher = "open"
        /\ \A p \in SrcPaths : (fs[p] # NoFile /\ p \notin known) => ENABLED WatcherAdd(p)

\* A file created after an 'error' event has been moved.
C10_Witness ==
    /\ watcherErrors.n > 0
    /\ \E m \in Invocations, id \in 1..MaxFiles :
          /\ id >= watcherErrors.at
          /\ m.file = NewFile(id) /\ m.st = "succeeded"

Terminal == {"succeeded", "failed"}

\* C11: given that every fs.move call settles and every backoff timer fires,
\* every invocation ends succeeded or failed; an invocation that has ended never
\* changes again (no attempt, no wait, no line), and it has logged exactly one
\* terminal line, the success line or the error line, while one that has not
\* ended has logged neither.
C11_EveryMoveEndsOnceForGood ==
    /\ \A i \in MoveIds :
          [](i \in DOMAIN moves => <>(i \in DOMAIN moves /\ moves[i].st \in Terminal))
    /\ [][\A i \in DOMAIN moves :
             moves[i].st \in Terminal => moves'[i] = moves[i]]_vars
    /\ [](\A m \in Invocations :
             /\ m.st = "succeeded" => m.ok = 1 /\ m.err = 0
             /\ m.st = "failed" => m.ok = 0 /\ m.err = 1
             /\ m.st \notin Terminal => m.ok = 0 /\ m.err = 0)

\* Both ends are reached after retries.
C11_Witness ==
    \E m \in Invocations : m.st \in Terminal /\ m.busy = 2 /\ m.att = 3


\* C12: an invocation started with budget n makes at most n + 1 attempts and at
\* most n backoff waits; the budget left is n less the retries made and is never
\* negative; a retry is made only after an attempt failed with EBUSY while
\* budget was left, and it lowers the budget by exactly one.  The 'add' handler
\* dispatches with budget 3, so at most 4 attempts are made on a detected file.
C12_RetriesBoundedByBudget ==
    /\ [](\A m \in Invocations :
             /\ m.att <= m.max + 1 /\ m.waits <= m.max
             /\ m.retries >= 0 /\ m.retries = m.max - (m.att - 1)
             /\ m.busy >= m.att - 1 /\ m.waits >= m.att - 1)
    /\ [](\A p \in SrcPaths : Dispatch(fs, DefaultEnv["DEST"], {p})[1].max + 1 = 4)
    /\ [][\A i \in DOMAIN moves :
             /\ (moves[i].st = "attempting" /\ moves'[i].st = "waiting")
                   => moves'[i].last = "EBUSY" /\ moves[i].retries > 0
             /\ (moves[i].st = "waiting" /\ moves'[i] # moves[i])
                   => /\ moves'[i].st = "attempting"
                      /\ moves'[i].retries = moves[i].retries - 1
                      /\ moves'[i].att = moves[i].att + 1
             /\ moves'[i].att # moves[i].att => moves[i].st = "waiting"]_vars

\* A dispatched invocation has used its whole budget: 4 attempts, 3 waits.
C12_Witness ==
    \E m \in Invocations :
        pc = "watching" /\ m.att = 4 /\ m.waits = 3 /\ m.retries = 0 /\ m.st = "failed"


\* C13: an invocation that has succeeded has made exactly one relocation, by its
\* last attempt, and none of its failed attempts changed the filesystem.
C13_SuccessIsTheOnlyEffect ==
    \A m \in Invocations :
        m.st = "succeeded" =>
            /\ m.moved = 1 /\ m.last = "ok" /\ m.att = m.busy + 1
            /\ ~m.clob

InFlight == {"attempting", "waiting"}

\* C14: the 'add' handler does not wait for the moves it started: while
\* invocations are awaiting fs.move or their backoff timer, a new file the
\* watcher does not hold as known still raises 'add' and starts its own move.
C14_DispatchDoesNotWait ==
    \A p \in SrcPaths :
        (/\ pc = "watching" /\ fs[p] # NoFile /\ p \notin known
         /\ \E m \in Invocations : m.st \in InFlight)
            => ENABLED WatcherAdd(p)

\* Two moves were in flight at once and the file detected second has been moved
\* while the one detected first is still in flight.
C14_Witness ==
    /\ Len(moves) = 2
    /\ moves[1].st \in InFlight
    /\ moves[2].st = "succeeded" /\ moves[2].moved = 1 /\ fs[moves[2].dest] = moves[2].file


SameDest(i, j) == i # j /\ moves[i].dest = moves[j].dest

\* C15: of two moves to one destination that were in flight together, the
\* destination finally holds the file of the one that succeeded last.  Stated
\* for the case that the one dispatched second has succeeded and the other has
\* failed: the destination then holds the second one's file.
C15_DestinationHoldsLastSuccess ==
    \A i \in DOMAIN moves : \A j \in DOMAIN moves :
        (/\ Len(moves) = 2 /\ SameDest(i, j) /\ i > j
         /\ moves[i].st = "succeeded" /\ moves[j].st = "failed")
            => fs[moves[i].dest] = moves[i].file

\* What holds of moves to one destination (C15): an attempt can settle while another invocation for the same
\* destination is in flight, a successful attempt puts its own file at the
\* destination also over the file another invocation put there, and no attempt
\* fails because the destination exists.
C15_LastSuccessfulMoveWins ==
    /\ [](\A i \in DOMAIN moves : \A j \in DOMAIN moves :
             (/\ Alive /\ SameDest(i, j)
              /\ moves[i].st = "attempting" /\ moves[j].st \in InFlight)
                => ENABLED MoveResolves(i) /\ ENABLED MoveRejects(i))
    /\ [][\A i \in DOMAIN moves :
             (moves[i].st = "attempting" /\ moves'[i].st = "succeeded")
                => /\ fs'[moves[i].dest] = moves[i].file
                   /\ fs'[moves[i].src] = NoFile]_vars
    /\ [](\A m \in Invocations : m.last \notin {"DEST_EXISTS", "EEXIST"})

\* Both moves to one destination have succeeded and the destination holds the
\* file of the one dispatched first: the one dispatched second succeeded first.
C15_Witness ==
    /\ Len(moves) = 2 /\ SameDest(1, 2)
    /\ moves[1].st = "succeeded" /\ moves[2].st = "succeeded"
    /\ moves[1].file # moves[2].file
    /\ fs[moves[1].dest] = moves[1].file

\* The same, the one dispatched second having succeeded last.
C15_WitnessInOrder ==
    /\ Len(moves) = 2 /\ SameDest(1, 2)
    /\ moves[1].st = "succeeded" /\ moves[2].st = "succeeded"
    /\ moves[1].file # moves[2].file
    /\ moves[1].busy = 1 /\ moves[2].busy = 1
    /\ fs[moves[1].dest] = moves[2].file

C17_FailedMoveIsNotStartedAgain ==
    \A i \in DOMAIN moves :
        (pc = "watching" /\ moves[i].st = "failed") =>
            /\ moves[i].file # NoFile /\ fs[moves[i].src] = moves[i].file
            /\ moves[i].src \in known
            /\ ~ENABLED WatcherAdd(moves[i].src)
            /\ \A j \in DOMAIN moves \ {i} :
                  /\ moves[j].file # moves[i].file
                  /\ j > i => moves[j].src # moves[i].src

\* A move failed and the service went on: a file detected later was moved.
C17_Witness ==
    /\ Len(moves) = 2
    /\ moves[1].st = "failed" /\ fs[moves[1].src] = moves[1].file
    /\ moves[2].st = "succeeded"

\* C18: the 'add' handler starts one move for the detected path, to the
\* destination directory joined with the path's base name alone and with the
\* default budget of 3, so that the subdirectories of the source are not
\* reproduced and files of one base name get one destination.
C18_DestinationIsBaseNameOnly ==
    /\ [](pc = "watching" =>
             \A m \in Invocations :
                 /\ m.src \in SrcPaths
                 /\ m.dest = <<cfg.destDir, m.src[Len(m.src)]>>
                 /\ m.max = 3)
    /\ [][Len(moves') # Len(moves) =>
             /\ Len(moves') = Len(moves) + 1
             /\ LET m == moves'[Len(moves')]
                IN  /\ m.src \notin known /\ known' = known \cup {m.src}
                    /\ m.file = fs[m.src] /\ m.file # NoFile
                    /\ m.retries = 3 /\ m.att = 1 /\ m.st = "attempting"]_vars
    /\ [](\A p \in SrcPaths : \A q \in SrcPaths :
             p[Len(p)] = q[Len(q)]
                => DestPathOf(DefaultEnv["DEST"], p) = DestPathOf(DefaultEnv["DEST"], q))

\* Files of one base name, one of them in a subdirectory, were detected and
\* their moves have one destination.
C18_Witness ==
    /\ Len(moves) = 2 /\ SameDest(1, 2)
    /\ moves[1].src # moves[2].src
    /\ Len(moves[1].src) # Len(moves[2].src)
    /\ Len(moves[1].dest) = 2

====
